---------------------------- MODULE Spec2Model ----------------------------
(***************************************************************************)
(* A state-machine model of redditsentiment.py: one press of the           *)
(* "Run Analysis" button, from input validation through the fetch loop,    *)
(* saving, scoring, plotting and packaging.                                *)
(*                                                                         *)
(* Text is modelled as a sequence of one-character strings, so that        *)
(* split(","), strip(), lower() and the substring test are computed as     *)
(* Python computes them.  Compound scores are integers in ten-thousandths  *)
(* (0.05 is 500, 1.0 is 10000).                                            *)
(***************************************************************************)
EXTENDS Integers, Sequences, FiniteSets, TLC

VARIABLES
    pc,                \* position of the script in the button handler
    client_id, client_secret, user_agent,   \* the three credential fields
    subreddits_input, keywords_input,       \* the two text areas
    subreddits, keywords,                   \* the parsed lists (lines 35-36)
    reddit,            \* TRUE once praw.Reddit(...) has been constructed
    all_data,          \* the list of collected records (line 54)
    si, pi,            \* loop positions: subreddit index, post index
    attempted,         \* names passed to reddit.subreddit(...), in order
    errors,            \* the exceptions caught at line 74, in order
    visited,           \* the posts yielded by the listing, in order
    ui,                \* the elements rendered on the page, in order
    folder,            \* TRUE once os.makedirs(folder_name) has run
    files,             \* the files written to disk, in order
    df,                \* the DataFrame
    zip_entries,       \* the entries of the in-memory archive, in order
    score, label       \* argument and result of classify_sentiment alone

vars == << pc, client_id, client_secret, user_agent, subreddits_input,
           keywords_input, subreddits, keywords, reddit, all_data, si, pi,
           attempted, errors, visited, ui, folder, files, df, zip_entries,
           score, label >>

---------------------------------------------------------------------------
(* Bounds of the model *)

\* longest text typed into the Subreddits area
MaxSubredditsLen == 3

\* longest text typed into the Keywords area
MaxKeywordsLen == 3

\* classify_sentiment alone is applied to every score in
\* -MaxScore .. MaxScore (ten-thousandths; 10000 is the compound score 1.0)
MaxScore == 10000

---------------------------------------------------------------------------
(* Text *)

Whitespace == {" "}

SubredditChars == {"a", "b", ",", " "}
KeywordChars == {"k", "K", ","}

Texts(chars, n) == UNION {[1..k -> chars] : k \in 0..n}

\* str.split(","): the pieces between commas, empty pieces included;
\* "" splits into [""]
RECURSIVE SplitFrom(_, _, _)
SplitFrom(s, i, cur) ==
    IF i > Len(s) THEN << cur >>
    ELSE IF s[i] = "," THEN << cur >> \o SplitFrom(s, i + 1, << >>)
    ELSE SplitFrom(s, i + 1, Append(cur, s[i]))

Split(s) == SplitFrom(s, 1, << >>)

\* str.strip(): leading and trailing whitespace removed
RECURSIVE LStrip(_)
LStrip(s) ==
    IF s # << >> /\ Head(s) \in Whitespace THEN LStrip(Tail(s)) ELSE s

RECURSIVE RStrip(_)
RStrip(s) ==
    IF s # << >> /\ s[Len(s)] \in Whitespace
    THEN RStrip(SubSeq(s, 1, Len(s) - 1))
    ELSE s

Strip(s) == RStrip(LStrip(s))

\* [x.strip() for x in text.split(",") if x.strip()]
StripAll(pieces) == [i \in 1..Len(pieces) |-> Strip(pieces[i])]
NonEmpty(s) == s # << >>
ParseList(text) == SelectSeq(StripAll(Split(text)), NonEmpty)

\* str.lower()
\* (the alphabet of the model has one cased letter)
LowerChar(c) == IF c = "K" THEN "k" ELSE c
Lower(s) == [i \in 1..Len(s) |-> LowerChar(s[i])]

\* the Python operator `k in t` on strings
IsSubstring(k, t) ==
    \E off \in 0..(Len(t) - Len(k)) : SubSeq(t, off + 1, off + Len(k)) = k

\* TitleMatches, were the title not lowered
TitleMatchesCaseSensitive(title, kws) ==
    \E j \in 1..Len(kws) : IsSubstring(Lower(kws[j]), title)

\* any(k.lower() in title_lower for k in keywords)
TitleMatches(title, kws) ==
    LET title_lower == Lower(title)
    IN  \E j \in 1..Len(kws) : IsSubstring(Lower(kws[j]), title_lower)


---------------------------------------------------------------------------
(* The environment: what Reddit holds, and what the lexicon scorer answers *)

\* a comment: its body and the day of its created_utc
Comment(body, day) == [body |-> body, created_utc |-> day]

\* a post: title, url, and its comment forest flattened (post.comments.list()
\* after replace_more(limit=0))
Post(title, url, comments) ==
    [title |-> title, url |-> url, comments |-> comments]

SubA == << "a" >>
SubB == << "b" >>

\* reddit.subreddit(name).new(limit=50): the posts of an existing subreddit,
\* newest first (both hold fewer than 50)
Listing(name) ==
    IF name = SubA THEN
        << Post(<< "K" >>, "u1", << Comment("c1", 1), Comment("c2", 2) >>),
           Post(<< "k", "k" >>, "u2", << Comment("c3", 2) >>) >>
    ELSE IF name = SubB THEN
        << Post(<< "z" >>, "u3", << Comment("c4", 1) >>),
           Post(<< "k" >>, "u4", << >>) >>
    ELSE << >>

\* a name that is no subreddit makes the listing raise on its first fetch
Exists(name) == name \in {SubA, SubB}

\* sid.polarity_scores(text)['compound'], in ten-thousandths
Compound(text) ==
    CASE text = "c1" -> 500
      [] text = "c2" -> -500
      [] text = "c3" -> 499
      [] OTHER -> -499

---------------------------------------------------------------------------
(* Pure parts of the script *)

\* lines 107 and 109: the two thresholds, 0.05 and -0.05, in ten-thousandths
PosThreshold == 500
NegThreshold == -500

\* classify_sentiment, were the positive comparison strict
classify_sentiment_strict(s) ==
    IF s > PosThreshold THEN "positive"
    ELSE IF s <= NegThreshold THEN "negative"
    ELSE "neutral"

\* line 106-112
classify_sentiment(s) ==
    IF s >= PosThreshold THEN "positive"
    ELSE IF s <= NegThreshold THEN "negative"
    ELSE "neutral"

\* lines 67-73: the record appended for one comment of one post
Record(name, post, c) ==
    [text |-> c.body, title |-> post.title, url |-> post.url,
     subreddit |-> name, date |-> c.created_utc]

\* PostRecords, were the last comment of a post left out
PostRecordsButLast(name, post) ==
    [j \in 1..(Len(post.comments) - 1) |->
        Record(name, post, post.comments[j])]

\* lines 66-73: the records appended for one post, in comment order
PostRecords(name, post) ==
    [j \in 1..Len(post.comments) |-> Record(name, post, post.comments[j])]

\* lines 85-87: folder_name (the minute of the run)
folder_name == "Data_now"

\* lines 91-92, 117, 151, 165: the five paths
File(base) == [dir |-> folder_name, base |-> base]
csv_path == File("Data_now.csv")
tab_path == File("Data_now.tab")
sentiment_csv == File("sentiment_analysis_results.csv")
time_plot_path == File("sentiment_over_time.png")
dist_plot_path == File("sentiment_distribution.png")

\* output_files, were the TAB file left out of the list
output_files_without_tab ==
    << csv_path, sentiment_csv, time_plot_path, dist_plot_path >>

\* lines 173-179
output_files ==
    << csv_path, tab_path, sentiment_csv, time_plot_path, dist_plot_path >>

\* os.path.basename, the arcname of line 181
basename(path) == path.base

\* an element rendered on the page: the call, its text, and the subreddit
\* name or the number it interpolates
Ui(kind, text, name, n) == [kind |-> kind, text |-> text, name |-> name, n |-> n]

CredentialsError ==
    Ui("error", "Please enter all PRAW credentials.", << >>, 0)
SubredditsError ==
    Ui("error", "Please enter at least one subreddit.", << >>, 0)
KeywordsError ==
    Ui("error", "Please enter at least one keyword.", << >>, 0)
InitError == Ui("error", "Failed to initialize PRAW", << >>, 0)
ScrapingInfo == Ui("info", "Scraping Reddit posts and comments...", << >>, 0)
SubredditErrorMsg(name) == Ui("write", "Error processing subreddit", name, 0)
NoCommentsInfo ==
    Ui("info", "No comments were found matching the specified keywords.",
       << >>, 0)
ScoringInfo == Ui("info", "Performing sentiment analysis...", << >>, 0)
CompleteMsg == Ui("success", "Sentiment Analysis Complete!", << >>, 0)
TotalMsg(n) == Ui("write", "Total Comments Analyzed", << >>, n)
CountMsg(lab, n) == Ui("write", lab, << >>, n)
FolderMsg == Ui("write", "Results saved in folder", << >>, 0)
TimePlot == Ui("pyplot", "Sentiment Over Time", << >>, 0)
DistPlot == Ui("pyplot", "Overall Sentiment Distribution", << >>, 0)
DownloadButton ==
    Ui("download_button", "Download All Output Files as ZIP", << >>, 0)
RawDataCheckbox == Ui("checkbox", "Show Raw Data", << >>, 0)

\* a file as written: its path, its separator, its columns and its row count
Written(path, sep, cols, rows) ==
    [path |-> path, sep |-> sep, cols |-> cols, rows |-> rows]

RawCols == << "text", "title", "url", "subreddit", "date" >>

\* the columns of df (lines 82, 99-114)
Columns(frame) ==
    IF frame = << >> THEN << >>
    ELSE IF "sentiment" \in DOMAIN frame[1]
         THEN RawCols \o << "compound", "sentiment" >>
         ELSE RawCols

\* df['sentiment'].value_counts().get(lab, 0)
CountLabel(frame, lab) ==
    Cardinality({i \in 1..Len(frame) : frame[i].sentiment = lab})

---------------------------------------------------------------------------
(* The state before the button is pressed *)

Credentials == {"", "x"}

Init ==
    /\ pc = "idle"
    /\ client_id \in Credentials
    /\ client_secret \in Credentials
    /\ user_agent \in Credentials
    /\ subreddits_input \in Texts(SubredditChars, MaxSubredditsLen)
    /\ keywords_input \in Texts(KeywordChars, MaxKeywordsLen)
    /\ subreddits = << >>
    /\ keywords = << >>
    /\ reddit = FALSE
    /\ all_data = << >>
    /\ si = 0
    /\ pi = 0
    /\ attempted = << >>
    /\ errors = << >>
    /\ visited = << >>
    /\ ui = << >>
    /\ folder = FALSE
    /\ files = << >>
    /\ df = << >>
    /\ zip_entries = << >>
    /\ score = 0
    /\ label = "none"

inputs == << client_id, client_secret, user_agent, subreddits_input,
             keywords_input >>
fetch_state == << all_data, si, pi, attempted, errors, visited >>
outputs == << folder, files, df, zip_entries >>
alone == << score, label >>

---------------------------------------------------------------------------
(* Lines 29-54: the button is pressed; validation and client construction *)

\* line 31
CredentialsMissing ==
    client_id = "" \/ client_secret = "" \/ user_agent = ""

\* ValidationError, were the keyword check missing
ValidationErrorWithoutKeywords ==
    IF CredentialsMissing THEN CredentialsError
    ELSE IF ParseList(subreddits_input) = << >> THEN SubredditsError
    ELSE Ui("none", "", << >>, 0)

\* lines 31-42: the error shown, or "none" when the inputs pass
ValidationError ==
    IF CredentialsMissing THEN CredentialsError
    ELSE IF ParseList(subreddits_input) = << >> THEN SubredditsError
    ELSE IF ParseList(keywords_input) = << >> THEN KeywordsError
    ELSE Ui("none", "", << >>, 0)

\* lines 29-42 with a blocking error
Rejected ==
    /\ pc = "idle"
    /\ ValidationError.kind = "error"
    /\ ui' = Append(ui, ValidationError)
    /\ subreddits' = IF CredentialsMissing THEN subreddits
                     ELSE ParseList(subreddits_input)
    /\ keywords' = IF CredentialsMissing THEN keywords
                   ELSE ParseList(keywords_input)
    /\ pc' = "done"
    /\ UNCHANGED << inputs, reddit, fetch_state, outputs, alone >>

\* lines 29-51: praw.Reddit(...) raises
InitFails ==
    /\ pc = "idle"
    /\ ValidationError.kind = "none"
    /\ subreddits' = ParseList(subreddits_input)
    /\ keywords' = ParseList(keywords_input)
    /\ ui' = Append(ui, InitError)
    /\ pc' = "done"
    /\ UNCHANGED << inputs, reddit, fetch_state, outputs, alone >>

\* lines 29-54: the inputs pass and the client is constructed
Accepted ==
    /\ pc = "idle"
    /\ ValidationError.kind = "none"
    /\ subreddits' = ParseList(subreddits_input)
    /\ keywords' = ParseList(keywords_input)
    /\ reddit' = TRUE
    /\ ui' = Append(ui, ScrapingInfo)
    /\ all_data' = << >>
    /\ pc' = "subreddits"
    /\ UNCHANGED << inputs, si, pi, attempted, errors, visited, outputs,
                    alone >>

---------------------------------------------------------------------------
(* Lines 57-75: the fetch loop.  The statements of the try block that ask  *)
(* Reddit for something are the iteration of the listing (line 61) and the *)
(* fetch of a post's comment forest (line 65); each may raise.  Building   *)
(* the records (lines 66-73) reads what has been fetched.                  *)

\* the subreddit and the post the loops are at
subreddit_name == subreddits[si]
post == Listing(subreddit_name)[pi]

Visit(matched, expanded) ==
    [sub |-> si, idx |-> pi, matched |-> matched, expanded |-> expanded]

\* line 57, 60: the next subreddit of the list; the listing is lazy
NextSubreddit ==
    /\ pc = "subreddits"
    /\ si < Len(subreddits)
    /\ si' = si + 1
    /\ pi' = 0
    /\ attempted' = Append(attempted, subreddits[si + 1])
    /\ pc' = "posts"
    /\ UNCHANGED << inputs, subreddits, keywords, reddit, all_data, errors,
                    visited, ui, outputs, alone >>

\* Caught, were the handler to discard what the failed subreddit had
\* appended
CaughtDiscarding(at) ==
    /\ errors' = Append(errors, [sub |-> si, at |-> at, idx |-> pi])
    /\ ui' = Append(ui, SubredditErrorMsg(subreddit_name))
    /\ pc' = "subreddits"
    /\ all_data' = SelectSeq(all_data, LAMBDA r : r.subreddit # subreddit_name)
    /\ UNCHANGED << si, pi >>

\* Caught, were the exception to end the loop over the subreddits
CaughtAborting(at) ==
    /\ errors' = Append(errors, [sub |-> si, at |-> at, idx |-> pi])
    /\ ui' = Append(ui, SubredditErrorMsg(subreddit_name))
    /\ pc' = "subreddits"
    /\ si' = Len(subreddits)
    /\ UNCHANGED << pi, all_data >>

\* lines 74-75: the exception is caught, reported, and the loop over the
\* subreddits goes on; nothing is removed from all_data
Caught(at) ==
    /\ errors' = Append(errors, [sub |-> si, at |-> at, idx |-> pi])
    /\ ui' = Append(ui, SubredditErrorMsg(subreddit_name))
    /\ pc' = "subreddits"
    /\ UNCHANGED << si, pi, all_data >>

\* line 61: fetching from the listing raises (always, for a name that is no
\* subreddit)
ListingRaises ==
    /\ pc = "posts"
    /\ ~Exists(subreddit_name) \/ pi < Len(Listing(subreddit_name))
    /\ Caught("listing")
    /\ UNCHANGED << inputs, subreddits, keywords, reddit, attempted, visited,
                    outputs, alone >>

\* line 61: the listing yields its next post
NextPost ==
    /\ pc = "posts"
    /\ Exists(subreddit_name)
    /\ pi < Len(Listing(subreddit_name))
    /\ pi' = pi + 1
    /\ pc' = "filter"
    /\ UNCHANGED << inputs, subreddits, keywords, reddit, all_data, si,
                    attempted, errors, visited, ui, outputs, alone >>

\* line 61: the listing is exhausted; back to the loop over the subreddits
ListingExhausted ==
    /\ pc = "posts"
    /\ Exists(subreddit_name)
    /\ pi = Len(Listing(subreddit_name))
    /\ pc' = "subreddits"
    /\ UNCHANGED << inputs, subreddits, keywords, reddit, fetch_state, ui,
                    outputs, alone >>

\* lines 62-63: the keyword filter on the title
Filter ==
    /\ pc = "filter"
    /\ IF TitleMatches(post.title, keywords)
       THEN /\ pc' = "expand"
            /\ UNCHANGED visited
       ELSE /\ pc' = "posts"
            /\ visited' = Append(visited, Visit(FALSE, FALSE))
    /\ UNCHANGED << inputs, subreddits, keywords, reddit, all_data, si, pi,
                    attempted, errors, ui, outputs, alone >>

\* line 65: fetching the comments of the post raises
ExpandRaises ==
    /\ pc = "expand"
    /\ visited' = Append(visited, Visit(TRUE, FALSE))
    /\ Caught("comments")
    /\ UNCHANGED << inputs, subreddits, keywords, reddit, attempted, outputs,
                    alone >>

\* lines 65-73: the comments are expanded and one record appended for each
ExpandComments ==
    /\ pc = "expand"
    /\ all_data' = all_data \o PostRecords(subreddit_name, post)
    /\ visited' = Append(visited, Visit(TRUE, TRUE))
    /\ pc' = "posts"
    /\ UNCHANGED << inputs, subreddits, keywords, reddit, si, pi, attempted,
                    errors, ui, outputs, alone >>

---------------------------------------------------------------------------
(* Lines 77-193: after the loop *)

\* NoComments, were the else of line 79 missing
NoCommentsFallingThrough ==
    /\ pc = "subreddits"
    /\ si = Len(subreddits)
    /\ all_data = << >>
    /\ ui' = Append(ui, NoCommentsInfo)
    /\ folder' = TRUE
    /\ pc' = "save_raw"
    /\ UNCHANGED << inputs, subreddits, keywords, reddit, fetch_state,
                    files, df, zip_entries, alone >>

\* lines 77-78
NoComments ==
    /\ pc = "subreddits"
    /\ si = Len(subreddits)
    /\ all_data = << >>
    /\ ui' = Append(ui, NoCommentsInfo)
    /\ pc' = "done"
    /\ UNCHANGED << inputs, subreddits, keywords, reddit, fetch_state,
                    outputs, alone >>

\* lines 79-88: the DataFrame and the output folder
BuildFrame ==
    /\ pc = "subreddits"
    /\ si = Len(subreddits)
    /\ all_data # << >>
    /\ df' = all_data
    /\ folder' = TRUE
    /\ pc' = "save_raw"
    /\ UNCHANGED << inputs, subreddits, keywords, reddit, fetch_state, ui,
                    files, zip_entries, alone >>

\* SaveRaw, were the sentiment file written with the raw files
SaveRawAndSentiment ==
    /\ pc = "save_raw"
    /\ files' = files \o << Written(csv_path, ",", Columns(df), Len(df)),
                            Written(tab_path, "\t", Columns(df), Len(df)),
                            Written(sentiment_csv, ",", Columns(df), Len(df)) >>
    /\ pc' = "score"
    /\ UNCHANGED << inputs, subreddits, keywords, reddit, fetch_state, ui,
                    folder, df, zip_entries, alone >>

\* lines 91-94: the CSV and the TAB file
SaveRaw ==
    /\ pc = "save_raw"
    /\ files' = files \o << Written(csv_path, ",", Columns(df), Len(df)),
                            Written(tab_path, "\t", Columns(df), Len(df)) >>
    /\ pc' = "score"
    /\ UNCHANGED << inputs, subreddits, keywords, reddit, fetch_state, ui,
                    folder, df, zip_entries, alone >>

\* lines 99-114: one row of df with its compound score and its label
Scored(row) ==
    [text |-> row.text, title |-> row.title, url |-> row.url,
     subreddit |-> row.subreddit, date |-> row.date,
     compound |-> Compound(row.text),
     sentiment |-> classify_sentiment(Compound(row.text))]

\* lines 97-114
Score ==
    /\ pc = "score"
    /\ ui' = Append(ui, ScoringInfo)
    /\ df' = [i \in 1..Len(df) |-> Scored(df[i])]
    /\ pc' = "save_sentiment"
    /\ UNCHANGED << inputs, subreddits, keywords, reddit, fetch_state, folder,
                    files, zip_entries, alone >>

\* lines 117-118
SaveSentiment ==
    /\ pc = "save_sentiment"
    /\ files' = Append(files, Written(sentiment_csv, ",", Columns(df), Len(df)))
    /\ pc' = "summary"
    /\ UNCHANGED << inputs, subreddits, keywords, reddit, fetch_state, ui,
                    folder, df, zip_entries, alone >>

\* lines 121-132
Summary ==
    /\ pc = "summary"
    /\ ui' = ui \o << CompleteMsg, TotalMsg(Len(df)),
                      CountMsg("Positive", CountLabel(df, "positive")),
                      CountMsg("Negative", CountLabel(df, "negative")),
                      CountMsg("Neutral", CountLabel(df, "neutral")),
                      FolderMsg >>
    /\ pc' = "plot_time"
    /\ UNCHANGED << inputs, subreddits, keywords, reddit, fetch_state,
                    outputs, alone >>

\* lines 136-154: the time-series plot, saved and then shown
PlotTime ==
    /\ pc = "plot_time"
    /\ files' = Append(files, Written(time_plot_path, "", << >>, 0))
    /\ ui' = Append(ui, TimePlot)
    /\ pc' = "plot_dist"
    /\ UNCHANGED << inputs, subreddits, keywords, reddit, fetch_state,
                    folder, df, zip_entries, alone >>

\* lines 157-168: the bar chart, saved and then shown
PlotDist ==
    /\ pc = "plot_dist"
    /\ files' = Append(files, Written(dist_plot_path, "", << >>, 0))
    /\ ui' = Append(ui, DistPlot)
    /\ pc' = "package"
    /\ UNCHANGED << inputs, subreddits, keywords, reddit, fetch_state,
                    folder, df, zip_entries, alone >>

OnDisk(path) == \E i \in 1..Len(files) : files[i].path = path

\* lines 171-183: zip_file.write(file_path, arcname=basename) for each of
\* output_files; writing a file that is not on disk raises
Package ==
    /\ pc = "package"
    /\ IF \A i \in 1..Len(output_files) : OnDisk(output_files[i])
       THEN /\ zip_entries' =
                  [i \in 1..Len(output_files) |-> basename(output_files[i])]
            /\ pc' = "download"
       ELSE /\ zip_entries' = << >>
            /\ pc' = "crashed"
    /\ UNCHANGED << inputs, subreddits, keywords, reddit, fetch_state, ui,
                    folder, files, df, alone >>

\* lines 185-190
Download ==
    /\ pc = "download"
    /\ ui' = Append(ui, DownloadButton)
    /\ pc' = "checkbox"
    /\ UNCHANGED << inputs, subreddits, keywords, reddit, fetch_state,
                    outputs, alone >>

\* lines 192-193: the checkbox is rendered unchecked, so the table is not
Checkbox ==
    /\ pc = "checkbox"
    /\ ui' = Append(ui, RawDataCheckbox)
    /\ pc' = "done"
    /\ UNCHANGED << inputs, subreddits, keywords, reddit, fetch_state,
                    outputs, alone >>

Next ==
    \/ Rejected
    \/ InitFails
    \/ Accepted
    \/ NextSubreddit
    \/ ListingRaises
    \/ NextPost
    \/ ListingExhausted
    \/ Filter
    \/ ExpandRaises
    \/ ExpandComments
    \/ NoComments
    \/ BuildFrame
    \/ SaveRaw
    \/ Score
    \/ SaveSentiment
    \/ Summary
    \/ PlotTime
    \/ PlotDist
    \/ Package
    \/ Download
    \/ Checkbox

Spec == Init /\ [][Next]_vars

---------------------------------------------------------------------------
(* classify_sentiment alone, on every score of -MaxScore .. MaxScore *)

InitClassify ==
    /\ pc = "classify"
    /\ client_id = ""
    /\ client_secret = ""
    /\ user_agent = ""
    /\ subreddits_input = << >>
    /\ keywords_input = << >>
    /\ subreddits = << >>
    /\ keywords = << >>
    /\ reddit = FALSE
    /\ all_data = << >>
    /\ si = 0
    /\ pi = 0
    /\ attempted = << >>
    /\ errors = << >>
    /\ visited = << >>
    /\ ui = << >>
    /\ folder = FALSE
    /\ files = << >>
    /\ df = << >>
    /\ zip_entries = << >>
    /\ score \in (-MaxScore)..MaxScore
    /\ label = "none"

\* line 114: the function applied to one score
Classify ==
    /\ pc = "classify"
    /\ label' = classify_sentiment(score)
    /\ pc' = "classified"
    /\ UNCHANGED << inputs, subreddits, keywords, reddit, fetch_state, ui,
                    outputs, score >>

NextClassify == Classify

SpecClassify == InitClassify /\ [][NextClassify]_vars

---------------------------------------------------------------------------
(* Vocabulary of the properties *)

Range(seq) == {seq[i] : i \in 1..Len(seq)}

\* the loop over the subreddits has ended
FetchFinished ==
    \/ pc \in {"save_raw", "score", "save_sentiment", "summary", "plot_time",
               "plot_dist", "package", "download", "checkbox", "crashed"}
    \/ pc = "done" /\ reddit

\* the stages after the DataFrame is built
Downstream ==
    {"save_raw", "score", "save_sentiment", "summary", "plot_time",
     "plot_dist", "package", "download", "checkbox"}

\* the attempts (positions of the subreddit list) whose processing raised
FailedAttempts == {errors[k].sub : k \in 1..Len(errors)}

\* the records a post of Reddit gives
RecordsOfPost(name, j) == PostRecords(name, Listing(name)[j])

\* the records of the keyword-matching posts among the first n posts of a
\* subreddit, in listing order
RECURSIVE RecordsOfPrefix(_, _)
RecordsOfPrefix(name, n) ==
    IF n = 0 THEN << >>
    ELSE RecordsOfPrefix(name, n - 1) \o
         (IF TitleMatches(Listing(name)[n].title, keywords)
          THEN RecordsOfPost(name, n) ELSE << >>)

\* the number of posts of attempt i whose processing was completed: all of
\* the listing, or those before the error
Completed(i) ==
    IF i \in FailedAttempts
    THEN LET e == CHOOSE x \in Range(errors) : x.sub = i
         IN  IF e.at = "comments" THEN e.idx - 1 ELSE e.idx
    ELSE Len(Listing(subreddits[i]))

\* what attempts 1..n leave in the list
RECURSIVE RetainedUpTo(_)
RetainedUpTo(n) ==
    IF n = 0 THEN << >>
    ELSE RetainedUpTo(n - 1) \o RecordsOfPrefix(subreddits[n], Completed(n))

\* how often a record occurs in a list
Occurrences(seq, r) == Cardinality({n \in 1..Len(seq) : seq[n] = r})

\* the five columns of a row of df
Raw(row) ==
    [text |-> row.text, title |-> row.title, url |-> row.url,
     subreddit |-> row.subreddit, date |-> row.date]

HasSentiment(frame) ==
    frame # << >> /\ \A i \in 1..Len(frame) : "sentiment" \in DOMAIN frame[i]

---------------------------------------------------------------------------
(* C1 *)

\* C1, as stated: after the fetch loop has ended, the list holds no record
\* whose subreddit field is a subreddit whose processing raised an error.
C1_NoRecordOfFailedSubreddit ==
    FetchFinished =>
        \A k \in 1..Len(errors) : \A n \in 1..Len(all_data) :
            all_data[n].subreddit # subreddits[errors[k].sub]

\* C1, amended: after the fetch loop has ended, what each subreddit of the
\* list has left in all_data is exactly the records of its keyword-matching
\* posts whose processing was completed: for a subreddit whose processing
\* raised, the records of the matching posts before the error are retained,
\* and the post being processed at the error and the posts after it leave
\* none.
C1_FailedSubredditKeepsEarlierPosts ==
    FetchFinished => all_data = RetainedUpTo(Len(subreddits))

\* a run in which the only subreddit raised after one of its posts had been
\* collected, and whose records are in the list at the end of the loop
C1_Witness ==
    /\ FetchFinished
    /\ Len(subreddits) = 1
    /\ Len(errors) = 1
    /\ all_data # << >>
    /\ all_data[1].subreddit = subreddits[1]

---------------------------------------------------------------------------
(* C2 *)

\* the "Error processing subreddit" lines of the page, in order
ErrorLines == SelectSeq(ui, LAMBDA u : u.text = "Error processing subreddit")

\* C2: an error in one subreddit never aborts the run.  Every subreddit of
\* the list is attempted once, in input order; one error line is written per
\* failed subreddit, naming it; every record of a subreddit that did not
\* fail is in the list (as often as the subreddit was fetched without
\* failing), also when it comes after a failed one; and the list is what the
\* stages after the loop work on.
C2_ErrorDoesNotAbortRun ==
    /\ attempted = SubSeq(subreddits, 1, si)
    /\ FetchFinished =>
        /\ attempted = subreddits
        /\ Len(ErrorLines) = Cardinality(FailedAttempts)
        /\ ErrorLines = [k \in 1..Len(errors) |->
                            SubredditErrorMsg(subreddits[errors[k].sub])]
        /\ \A k, m \in 1..Len(errors) : k < m => errors[k].sub < errors[m].sub
        /\ \A i \in 1..Len(subreddits) : i \notin FailedAttempts =>
            LET name == subreddits[i]
                full == RecordsOfPrefix(name, Len(Listing(name)))
                clean == {j \in 1..Len(subreddits) :
                            subreddits[j] = name /\ j \notin FailedAttempts}
            IN  \A k \in 1..Len(full) :
                    Occurrences(all_data, full[k]) >= Cardinality(clean)
    /\ pc \in Downstream =>
        /\ all_data # << >>
        /\ [i \in 1..Len(df) |-> Raw(df[i])] = all_data

\* a finished run whose first subreddit raised and whose second subreddit
\* was collected and went through every later stage
C2_Witness ==
    /\ pc = "done"
    /\ Len(subreddits) = 2
    /\ FailedAttempts = {1}
    /\ \E n \in 1..Len(all_data) : all_data[n].subreddit = subreddits[2]
    /\ Len(df) = Len(all_data)
    /\ zip_entries # << >>

---------------------------------------------------------------------------
(* C3 *)

\* C3: classify_sentiment gives every compound score exactly one label:
\* "positive" if and only if the score is at least 0.05, "negative" if and
\* only if it is at most -0.05, "neutral" otherwise; 0.05 itself is positive
\* and -0.05 itself is negative.  (Scores in ten-thousandths.)
C3_ClassifyThresholds ==
    pc = "classified" =>
        /\ label \in {"positive", "negative", "neutral"}
        /\ label = "positive" <=> score >= 500
        /\ label = "negative" <=> score <= -500
        /\ label = "neutral" <=> (-500 < score /\ score < 500)

\* the score 0.05 has been classified, as positive
C3_Witness == pc = "classified" /\ score = 500 /\ label = "positive"

---------------------------------------------------------------------------
(* C4 *)

\* two characters that are the same letter, whatever their case
SameLetter(a, b) == a = b \/ {a, b} = {"k", "K"}

\* the text holds the keyword somewhere, ignoring case
ContainsIgnoringCase(text, k) ==
    \E off \in 0..(Len(text) - Len(k)) :
        \A j \in 1..Len(k) : SameLetter(text[off + j], k[j])

HasKeyword(title) ==
    \E k \in Range(keywords) : ContainsIgnoringCase(title, k)

TitleOf(v) == Listing(subreddits[v.sub])[v.idx].title
UrlOf(v) == Listing(subreddits[v.sub])[v.idx].url

\* C4: the filter keeps exactly the posts whose title holds a keyword as a
\* case-insensitive substring.  In every state of the fetch loop and after
\* it, every record's title holds a keyword; a post yielded by the listing
\* passes the filter if and only if its title holds a keyword; the comments
\* of a post are expanded only if it passes; a post that does not pass has
\* no record in the list; and every record of an expanded post is there.
C4_FilterKeepsExactlyMatchingTitles ==
    /\ \A n \in 1..Len(all_data) : HasKeyword(all_data[n].title)
    /\ pc = "expand" => HasKeyword(post.title)
    /\ \A m \in 1..Len(visited) :
        LET v == visited[m]
            name == subreddits[v.sub]
        IN  /\ v.matched <=> HasKeyword(TitleOf(v))
            /\ v.expanded => v.matched
            /\ ~HasKeyword(TitleOf(v)) =>
                   \A n \in 1..Len(all_data) : all_data[n].url # UrlOf(v)
            /\ v.expanded =>
                   Range(RecordsOfPost(name, v.idx)) \subseteq Range(all_data)

\* the keyword "k" has kept the comments of the post titled "K", and a post
\* whose title holds no keyword has been passed over
C4_Witness ==
    /\ keywords = << << "k" >> >>
    /\ \E n \in 1..Len(all_data) : all_data[n].title = << "K" >>
    /\ \E m \in 1..Len(visited) : ~visited[m].matched

---------------------------------------------------------------------------
(* C5 *)

\* a text that leaves nothing when split on commas and blank entries are
\* dropped: it holds only commas and whitespace
Blank(text) == \A i \in 1..Len(text) : text[i] = "," \/ text[i] \in Whitespace

Blocked ==
    \/ client_id = ""
    \/ client_secret = ""
    \/ user_agent = ""
    \/ Blank(subreddits_input)
    \/ Blank(keywords_input)

\* C5: with a credential empty, or no subreddit, or no keyword left after
\* parsing, pressing the button is blocked: the page shows exactly one
\* element, an error, and the run constructs no client, fetches nothing,
\* creates no folder and no file, and scores nothing.
C5_InvalidInputBlocksRun ==
    Blocked =>
        /\ pc \in {"idle", "done"}
        /\ pc = "idle" => ui = << >>
        /\ pc = "done" =>
            /\ Len(ui) = 1
            /\ ui[1] \in {CredentialsError, SubredditsError, KeywordsError}
        /\ ~reddit
        /\ attempted = << >>
        /\ visited = << >>
        /\ all_data = << >>
        /\ ~folder
        /\ files = << >>
        /\ df = << >>
        /\ zip_entries = << >>

\* the button was pressed with credentials and subreddits given and a
\* keyword text of commas only, and the keyword error is shown
C5_Witness ==
    /\ pc = "done"
    /\ ~CredentialsMissing
    /\ ~Blank(subreddits_input)
    /\ keywords_input # << >>
    /\ Blank(keywords_input)
    /\ ui = << KeywordsError >>

---------------------------------------------------------------------------
(* C6 *)

\* C6: when the loop ends with no record collected (no yielded post matched
\* a keyword, or every subreddit failed, or the matching posts had no
\* comments), the run shows the "no comments" information and ends: no
\* folder, no file, no scoring, no plot, no archive.  A run in which no
\* yielded post matched has no record, and a run with no record never
\* enters the stages after the loop.
C6_NothingFoundWritesNothing ==
    /\ (\A m \in 1..Len(visited) : ~visited[m].matched) => all_data = << >>
    /\ all_data = << >> => pc \notin Downstream \union {"crashed"}
    /\ (pc = "done" /\ reddit /\ all_data = << >>) =>
        /\ ui[Len(ui)] = NoCommentsInfo
        /\ ~folder
        /\ files = << >>
        /\ df = << >>
        /\ zip_entries = << >>
        /\ \A i \in 1..Len(ui) :
               ui[i].kind \notin {"success", "pyplot", "download_button"}

\* a finished run in which posts were yielded, none matched, and no
\* subreddit failed
C6_Witness ==
    /\ pc = "done"
    /\ reddit
    /\ errors = << >>
    /\ visited # << >>
    /\ \A m \in 1..Len(visited) : ~visited[m].matched
    /\ ui[Len(ui)] = NoCommentsInfo

---------------------------------------------------------------------------
(* C7 *)

\* C7, as stated: no (post, comment) pair is in more than one record, also
\* when the subreddit list names a subreddit more than once.  (A post is
\* known by its url and a comment by its body.)
C7_OneRecordPerPostAndComment ==
    \A i, j \in 1..Len(all_data) :
        i # j => << all_data[i].url, all_data[i].text >>
                    # << all_data[j].url, all_data[j].text >>

---------------------------------------------------------------------------
(* C8 *)

\* the number of comments of the posts the loop has included so far (the
\* posts that passed the filter and whose comments were expanded), each
\* counted as often as the loop came to it
RECURSIVE IncludedComments(_)
IncludedComments(m) ==
    IF m = 0 THEN 0
    ELSE IncludedComments(m - 1) +
         (IF visited[m].expanded
          THEN Len(Listing(subreddits[visited[m].sub])[visited[m].idx].comments)
          ELSE 0)

---------------------------------------------------------------------------
(* C9 *)

FiveArtifacts ==
    {"Data_now.csv", "Data_now.tab", "sentiment_analysis_results.csv",
     "sentiment_over_time.png", "sentiment_distribution.png"}

\* the files of the output folder with that name
Copies(base) ==
    {i \in 1..Len(files) :
        files[i].path.base = base /\ files[i].path.dir = folder_name}

\* C9: whenever a run reaches the packaging stage, each of the five
\* artifacts is already in the output folder, packaging does not fail, and
\* the archive it builds has exactly five entries, one for each artifact.
C9_ArchiveHoldsTheFiveArtifacts ==
    /\ pc # "crashed"
    /\ (pc \in {"package", "download", "checkbox"} \/ zip_entries # << >>) =>
        \A base \in FiveArtifacts : Cardinality(Copies(base)) = 1
    /\ (pc \in {"download", "checkbox"} \/ zip_entries # << >>) =>
        /\ Len(zip_entries) = 5
        /\ Range(zip_entries) = FiveArtifacts

\* the archive has just been built, with its five entries
C9_Witness == pc = "download" /\ Len(zip_entries) = 5

---------------------------------------------------------------------------
(* C10 *)

Shown(u) == u \in Range(ui)
SavedNames == [i \in 1..Len(files) |-> files[i].path.base]
FilesInOrder ==
    << "Data_now.csv", "Data_now.tab", "sentiment_analysis_results.csv",
       "sentiment_over_time.png", "sentiment_distribution.png" >>

\* a result of the analysis is on the page
ResultShown ==
    \E i \in 1..Len(ui) : ui[i].kind \in {"success", "pyplot", "download_button"}

\* C10, as stated: scoring is finished before any output file is saved, and
\* all plotting and packaging is finished before any result is displayed.
C10_ScoreBeforeAnySaveShowAfterAll ==
    /\ files # << >> => HasSentiment(df)
    /\ ResultShown => (Len(files) = 5 /\ Len(zip_entries) = 5)

\* C10, amended: the stages run in the order input, fetch and filter, save
\* of the CSV and TAB files, score, save of the sentiment file, display of
\* the summary, plot of each chart (saved, then displayed), package, display
\* of the download button, each finished before the next begins.  Scoring is
\* finished before the sentiment results file is saved (the CSV and TAB
\* files are saved before scoring begins), and all plotting and packaging is
\* finished before the download button is displayed (the summary is
\* displayed before plotting and the charts before packaging).
C10_StagesInCodeOrder ==
    /\ SavedNames = SubSeq(FilesInOrder, 1, Len(files))
    /\ files # << >> => FetchFinished /\ df # << >>
    /\ HasSentiment(df) <=> (Len(files) >= 2 /\ pc # "score")
    /\ Len(files) >= 3 =>
           HasSentiment(df) /\ files[3].cols = Columns(df)
    /\ Len(files) >= 1 => files[1].cols = RawCols
    /\ Len(files) >= 2 => files[2].cols = RawCols
    /\ Shown(CompleteMsg) <=>
           (Len(files) >= 4 \/ (Len(files) = 3 /\ pc # "summary"))
    /\ Shown(TimePlot) <=> Len(files) >= 4
    /\ Shown(DistPlot) <=> Len(files) = 5
    /\ zip_entries # << >> => Shown(DistPlot)
    /\ Shown(DownloadButton) <=>
           (zip_entries # << >> /\ pc \in {"checkbox", "done"})
    /\ Shown(RawDataCheckbox) <=> (Shown(DownloadButton) /\ pc = "done")

\* a finished run that went through every stage
C10_Witness ==
    /\ pc = "done"
    /\ Shown(DownloadButton)
    /\ Len(files) = 5
    /\ HasSentiment(df)

=============================================================================
